---- MODULE Spec2Model ----
(***************************************************************************)
(* jekyll-history: per-commit build coordination and virtual-host routing  *)
(* (history.go).  Every HTTP request is a goroutine running                *)
(* commitHandler.ServeHTTP; the shared state is the sync.Map of            *)
(* buildCommitOnce records, the repoLock mutex, the git working tree, the  *)
(* output directories and the SafeHostSwitch routing table.  Two smaller    *)
(* specifications cover main's scan of `git log --oneline` (StartSpec) and *)
(* the formatting of a build error by stderrError.Error (FmtSpec).         *)
(***************************************************************************)
EXTENDS Integers, Sequences, FiniteSets, TLC

(* ------------------------------ bounds -------------------------------- *)

\* number of HTTP requests to /commit/{commit}/* in one run
NumReqs == 2

\* number of requests whose client goes away before the response
MaxAbandoned == 1

\* number of lines `git log --oneline` may print at startup
MaxLines == 2

\* number of bytes a subprocess may write to standard error
MaxStderr == 4

Reqs == 1..NumReqs

(* --------------------------- program constants ------------------------ *)

\* flag.IntVar(&port, "port", 8080, ...)
DefaultPort == 8080

\* ip[0] = 127
LoopbackNet == 127

\* net/http status codes used by ServeHTTP
StatusSeeOther == 303
StatusNotFound == 404
StatusInternalServerError == 500

\* hash/fnv: offset32 = 2166136261 = 0x811C9DC5, prime32 = 16777619 = 0x01000193,
\* kept as 16-bit halves so that every product stays inside TLC's integers
Offset32Hi == 33052
Offset32Lo == 40389
Prime32Hi == 256
Prime32Lo == 403

Half == 65536

(* ------------------------------ commits ------------------------------- *)

\* commit ids are the byte strings `git log --oneline` prints
\* (both known ids hash to an address ending .0.0.1, the canonical 127.0.0.1,
\* so the allocation loop's collision branch is exercised against the listing
\* host and against the other commit)
CommitA == <<48, 54, 52, 49, 99, 52, 56>>      \* "0641c48"  fnv32a = 0x3a000001
CommitB == <<48, 55, 101, 48, 97, 51, 54>>     \* "07e0a36"  fnv32a = 0x18000001
CommitZ == <<122, 122, 122, 57, 57, 57>>       \* "zzz999", not in the log

\* the titles of the two commits: "Initial commit", "Add feature"
TitleA == <<73, 110, 105, 116, 105, 97, 108, 32, 99, 111, 109, 109, 105, 116>>
TitleB == <<65, 100, 100, 32, 102, 101, 97, 116, 117, 114, 101>>

\* what `git log --oneline` prints for the repository, newest commit first
LogOutput == <<CommitB \o <<32>> \o TitleB, CommitA \o <<32>> \o TitleA>>

\* commits := make(map[string]string), filled from the log scan
commits == (CommitA :> TitleA) @@ (CommitB :> TitleB)

\* what `git clone` leaves checked out: the branch head, "HEAD"
HeadRef == <<72, 69, 65, 68>>

\* the {commit} URL parameters the requests carry
CommitParams == DOMAIN commits \cup {CommitZ}

\* the URLs requested in a run, /commit/{commit}/{rest}?{query}: one known
\* commit with each target, the other known commit and the unknown one
RequestURLs ==
    {[commit |-> CommitA, target |-> [rest |-> "", query |-> ""]],
     [commit |-> CommitA, target |-> [rest |-> "about/index.html", query |-> "v=1"]],
     [commit |-> CommitB, target |-> [rest |-> "about/index.html", query |-> "v=1"]],
     [commit |-> CommitZ, target |-> [rest |-> "", query |-> ""]]}

(* ------------------------------ fnv32a -------------------------------- *)

RECURSIVE Xor(_, _)
\* bitwise exclusive or of two naturals
Xor(a, b) ==
    IF a = 0 THEN b
    ELSE IF b = 0 THEN a
    ELSE ((a + b) % 2) + 2 * Xor(a \div 2, b \div 2)

\* fnv.New32a(): the offset basis, as <<high half, low half>>
New32a == <<Offset32Hi, Offset32Lo>>

\* (*sum32a).Write of one byte: hash ^= b; hash *= prime32 (mod 2^32)
WriteByte(h, b) ==
    LET lo  == Xor(h[2], b)
        hi  == h[1]
        plo == lo * Prime32Lo
    IN  << (hi * Prime32Lo + lo * Prime32Hi + (plo \div Half)) % Half,
           plo % Half >>

\* io.WriteString(h, commit): the bytes of commit written in order
WriteString(h, s) ==
    LET w[i \in 0..Len(s)] == IF i = 0 THEN h ELSE WriteByte(w[i - 1], s[i])
    IN  w[Len(s)]

\* h := fnv.New32a(); io.WriteString(h, commit), for each commit parameter
CommitHash == [c \in CommitParams |-> WriteString(New32a, c)]

\* h.Sum(ip[:0]): the four bytes of the hash, big endian
Sum(h) == << h[1] \div 256, h[1] % 256, h[2] \div 256, h[2] % 256 >>

\* the candidate without ip[0] = 127
CandidateIPRaw(h) == Sum(h)

\* h.Sum(ip[:0]); ip[0] = 127
CandidateIP(h) == [Sum(h) EXCEPT ![1] = LoopbackNet]

\* net.IP(ip[:]).String(): dotted decimal
IPString(ip) ==
    ToString(ip[1]) \o "." \o ToString(ip[2]) \o "." \o ToString(ip[3])
        \o "." \o ToString(ip[4])

\* the retry writing a zero byte
PerturbZero(h) == WriteByte(h, 0)

\* h.Write(one[:])
Perturb(h) == WriteByte(h, 1)

(* ------------------------------ values -------------------------------- *)

\* a nil error
NilErr == [err |-> <<>>, stderr |-> <<>>]

\* (*exec.ExitError).Error() of a subprocess that exits with status 1:
\* the bytes of "exit status 1"
ExitStatus1 == <<101, 120, 105, 116, 32, 115, 116, 97, 116, 117, 115, 32, 49>>

\* what the subprocess wrote to standard error before it failed: a letter for
\* the command ('g' for git checkout, 'j' for jekyll build), the commit it ran
\* on and the newline that ends the message
CmdStderr(cmd, commit) ==
    <<IF cmd = "git checkout" THEN 103 ELSE 106>> \o commit \o <<10>>

\* &stderrError{err, stderr.Bytes()}: the exit error of cmd.Run and the
\* captured standard error
stderrError(cmd, commit) == [err |-> ExitStatus1, stderr |-> CmdStderr(cmd, commit)]

\* nl = []byte{'\n'}, nltb = []byte{'\n', '\t'}
nl == <<10>>
nltb == <<10, 9>>

\* new(buildCommitOnce): once not done and its mutex free, host "", err nil
NewBuildCommitOnce == [done |-> FALSE, m |-> 0, host |-> "", err |-> NilErr]

\* every commit generated into ch.outDir itself
OutputDirShared(commit) == [root |-> "outDir", sub |-> <<>>]

\* path.Join(ch.outDir, commit)
OutputDir(commit) == [root |-> "outDir", sub |-> commit]

\* siteHandler(dir): file server rooted at dir
siteHandler(dir) == [kind |-> "site", dir |-> dir]

\* router := chi.NewRouter()
router == [kind |-> "router", dir |-> [root |-> "", sub |-> <<>>]]

\* notFoundHandler
notFoundHandler == [kind |-> "notFound", dir |-> [root |-> "", sub |-> <<>>]]

\* hosts.Add("127.0.0.1", router); hosts.Add("::1", router); hosts.Add("localhost", router)
CanonicalHosts == {"127.0.0.1", "::1", "localhost"}

NoURL == [Scheme |-> "", Host |-> "", Path |-> "", RawQuery |-> ""]

\* nothing written to w yet
NoResp == [status |-> 0, commit |-> <<>>, msg |-> <<>>, location |-> NoURL]

VARIABLES
    pc,         \* where each request's goroutine is in ServeHTTP
    req,        \* the request: commit, rest ("*") and RawQuery
    abandoned,  \* the client went away while the request was in flight
    ret,        \* what Do returned to ServeHTTP: host, err
    resp,       \* the response written to w
    build,      \* ch.build: commit -> buildCommitOnce
    repoLock,   \* ch.repoLock: 0 when free, else the holder
    workTree,   \* the commit checked out in ch.repoDir
    outTree,    \* output directory -> the commit its site was generated from
    hosts,      \* the SafeHostSwitch: host -> handler
    lerr,       \* buildSite's result in the running goroutine
    hsum,       \* the fnv32a state h of the allocation loop
    exit,       \* what `git checkout c` / `jekyll build` at c exit with
    checkouts,  \* number of `git checkout c` invocations
    gens,       \* number of `jekyll build` invocations at c
    startPc,    \* where main is: "log", "scan", "serving", "fatal", "panic"
    logExit,    \* the exit status of `git log --oneline`
    out,        \* the bytes.Buffer out: the lines the log printed
    scanPos,    \* number of lines the scanner has returned
    orderedCommits, \* main's orderedCommits slice
    commitsMap, \* main's commits map while it is filled
    fmtErr,     \* a *stderrError whose Error method is called
    fmtMsg      \* the string Error returned, <<>> before the call

\* main's variables up to the start of the server
startVars == <<startPc, logExit, out, scanPos, orderedCommits, commitsMap>>

\* the receiver and the result of (*stderrError).Error()
fmtVars == <<fmtErr, fmtMsg>>

vars == <<pc, req, abandoned, ret, resp, build, repoLock, workTree, outTree, hosts,
          lerr, hsum, exit, checkouts, gens, startVars, fmtVars>>

NoReq == [commit |-> <<>>, rest |-> "", query |-> ""]

\* host, err before Do has returned: the zero values
NoRet == [host |-> "", err |-> NilErr]

\* the commit handler and the routing table as main constructs them
ServingInit ==
    /\ pc = [r \in Reqs |-> "idle"]
    /\ req = [r \in Reqs |-> NoReq]
    /\ abandoned = [r \in Reqs |-> FALSE]
    /\ ret = [r \in Reqs |-> NoRet]
    /\ resp = [r \in Reqs |-> NoResp]
    /\ build = <<>>
    /\ repoLock = 0
    /\ workTree = HeadRef
    /\ outTree = <<>>
    /\ hosts = [h \in CanonicalHosts |-> router]
    /\ lerr = [r \in Reqs |-> NilErr]
    /\ hsum = [r \in Reqs |-> New32a]
    /\ exit \in [DOMAIN commits -> {"ok", "checkout", "jekyll"}]
    /\ checkouts = [c \in CommitParams |-> 0]
    /\ gens = [c \in CommitParams |-> 0]

\* no *stderrError is being formatted
FmtIdle ==
    /\ fmtErr = NilErr
    /\ fmtMsg = <<>>

\* main has scanned LogOutput into commits and orderedCommits and started the
\* server
Started ==
    /\ startPc = "serving"
    /\ logExit = 0
    /\ out = LogOutput
    /\ scanPos = Len(LogOutput)
    /\ orderedCommits = <<CommitB, CommitA>>
    /\ commitsMap = commits

\* the server has started and no request has arrived
Init ==
    /\ ServingInit
    /\ Started
    /\ FmtIdle


(* --------------------------- helper operators ------------------------- *)

\* ServeHTTP without the lookup in ch.commits
KnownCommitAny(commit) == TRUE

\* _, ok := ch.commits[commit]
KnownCommit(commit) == commit \in DOMAIN commits

\* ch.build.Store(commit, value): the record of the key replaced
StoreMap(m, key, value) ==
    [k \in DOMAIN m \cup {key} |-> IF k = key THEN value ELSE m[k]]

\* the map after ch.build.LoadOrStore(commit, value): the record the key has is
\* kept, value is stored only when the key has none
LoadOrStoreMap(m, key, value) ==
    IF key \in DOMAIN m THEN m ELSE m @@ (key :> value)

\* a once without its mutex: every caller that finds done unset runs f
OnceMayEnterNoMutex(bc) == ~bc.done

\* a once that runs f again after f recorded an error
OnceMayEnterRetry(bc) == (~bc.done \/ bc.err # NilErr) /\ bc.m = 0

\* sync.Once.Do, slow path: the goroutine that finds the once not done and its
\* mutex free runs f; every other caller blocks on the mutex
OnceMayEnter(bc) == ~bc.done /\ bc.m = 0

\* a once whose late callers do not wait for f
OnceMayReturnEarly(bc) == TRUE

\* sync.Once.Do returns to a caller only when f has returned (done is set)
OnceMayReturn(bc) == bc.done

\* buildSite without the repoLock
CanLockAlways == TRUE

\* ch.repoLock.Lock() goes through only when the mutex is free
CanLock == repoLock = 0

\* an Unlock at the end of buildSite, after the early returns
UnlockAtEnd(r, err) == IF err # NilErr THEN r ELSE 0

\* defer ch.repoLock.Unlock(): the mutex is free when buildSite has returned,
\* whatever it returns
DeferredUnlock(r, err) == 0

\* git checkout run without cmd.Dir = ch.repoDir: the clone is left as it was
WorkTreeNoDir(commit, ok) == workTree

\* the working tree of ch.repoDir after `git checkout commit` run in it: at
\* commit when the command exits zero, else as it was
WorkTreeAfterCheckout(commit, ok) == IF ok THEN commit ELSE workTree

\* exec.CommandContext(r.Context(), ...): the subprocess is killed once the
\* request's client has gone away
CmdRunContext(r, step, commit) ==
    IF commit \in DOMAIN exit /\ exit[commit] # step /\ ~abandoned[r]
    THEN "ok" ELSE "fail"

\* cmd.Run() of exec.Command(...): the exit status is the subprocess's own; the
\* request's context is not handed to the command
CmdRun(r, step, commit) ==
    IF commit \in DOMAIN exit /\ exit[commit] # step THEN "ok" ELSE "fail"

\* buildSite's result kept in a local err and never stored in bc.err
RecordedErrShadowed(err) == NilErr

\* bc.err = ch.buildSite(commit, dir): what the record holds as its error
RecordedErr(err) == err

\* Do going on to the allocation whatever buildSite returned
BuildErrIgnored(err) == FALSE

\* if bc.err = ch.buildSite(commit, dir); bc.err != nil { return }
BuildErr(err) == err # NilErr

\* the loop leaving at the first candidate, whatever Add answers
AddSucceededIgnored(host) == TRUE

\* ch.hosts.Add(bc.host, handler) == nil: Add refuses a host that is registered
AddSucceeded(host) == host \notin DOMAIN hosts

\* a loop that leaves without the table taking the host
HostsAddNone(host, handler) == hosts

\* the table after ch.hosts.Add(host, handler)
HostsAdd(host, handler) ==
    IF host \in DOMAIN hosts THEN hosts ELSE hosts @@ (host :> handler)

\* the SafeHostSwitch's dispatch on the request's host
Dispatch(host) == IF host \in DOMAIN hosts THEN hosts[host] ELSE notFoundHandler

\* net.JoinHostPort(host, strconv.Itoa(ch.port))
JoinHostPort(host, port) == host \o ":" \o ToString(port)

\* the redirect without RawQuery
RedirectURLNoQuery(host, redirect, rawQuery) ==
    [Scheme |-> "http", Host |-> host \o ":" \o ToString(DefaultPort),
     Path |-> redirect, RawQuery |-> ""]

\* url := &url.URL{Scheme: "http", Host: ..., Path: redirect, RawQuery: r.URL.RawQuery}
RedirectURL(host, redirect, rawQuery) ==
    [Scheme |-> "http", Host |-> JoinHostPort(host, DefaultPort),
     Path |-> redirect, RawQuery |-> rawQuery]

\* bytes.Replace(b, nl, nltb, -1): every newline of b followed by a tab
Replace(b) ==
    LET R[i \in 0..Len(b)] ==
            IF i = 0 THEN <<>>
            ELSE R[i - 1] \o (IF <<b[i]>> = nl THEN nltb ELSE <<b[i]>>)
    IN  R[Len(b)]

\* a TrimRight with every white space byte in its cutset
TrimRightSpace(b) ==
    LET keep == {i \in 1..Len(b) : b[i] \notin {9, 10, 11, 12, 13, 32}}
    IN  IF keep = {} THEN <<>>
        ELSE SubSeq(b, 1, CHOOSE i \in keep : \A j \in keep : j <= i)

\* bytes.TrimRight(b, "\t"): the trailing tabs of b cut, nothing else
TrimRight(b) ==
    LET keep == {i \in 1..Len(b) : b[i] # 9}
    IN  IF keep = {} THEN <<>>
        ELSE SubSeq(b, 1, CHOOSE i \in keep : \A j \in keep : j <= i)

\* (*stderrError).Error(): e.err.Error() alone when nothing was captured, else
\* fmt.Sprintf("%s:\n\t%s", e.err, TrimRight(Replace(e.stderr, nl, nltb), "\t"))
Error(e) ==
    IF Len(e.stderr) = 0 THEN e.err
    ELSE e.err \o <<58, 10, 9>> \o TrimRight(Replace(e.stderr))

\* ch.notFound.ServeHTTP(w, r)
NotFoundResp ==
    [status |-> StatusNotFound, commit |-> <<>>, msg |-> <<>>, location |-> NoURL]

\* w.WriteHeader(500); buildErrorTmpl.Execute(w, {Commit: commit, Msg: err.Error()})
BuildErrorResp(commit, err) ==
    [status |-> StatusInternalServerError, commit |-> commit, msg |-> Error(err),
     location |-> NoURL]

\* http.Redirect(w, r, url.String(), http.StatusSeeOther)
RedirectResp(url) ==
    [status |-> StatusSeeOther, commit |-> <<>>, msg |-> <<>>, location |-> url]

(* ------------------------------ actions ------------------------------- *)

\* ServeHTTP, entry: read the URL parameters; an unknown commit gets notFound;
\* else v, ok := ch.build.Load(commit)
Arrive(r, commit, t) ==
    /\ pc[r] = "idle"
    /\ IF r = 1 THEN TRUE ELSE pc[r - 1] # "idle"
    /\ req' = [req EXCEPT ![r] = [commit |-> commit, rest |-> t.rest, query |-> t.query]]
    /\ IF KnownCommit(commit)
       THEN /\ pc' = [pc EXCEPT ![r] =
                       IF commit \in DOMAIN build THEN "Do" ELSE "LoadOrStore"]
            /\ resp' = resp
       ELSE /\ pc' = [pc EXCEPT ![r] = "done"]
            /\ resp' = [resp EXCEPT ![r] = NotFoundResp]
    /\ UNCHANGED <<startVars, fmtVars>>
    /\ UNCHANGED <<abandoned, ret, build, repoLock, workTree, outTree, hosts,
                   lerr, hsum, exit, checkouts, gens>>

\* v, _ = ch.build.LoadOrStore(commit, new(buildCommitOnce))
LoadOrStore(r) ==
    /\ pc[r] = "LoadOrStore"
    /\ build' = LoadOrStoreMap(build, req[r].commit, NewBuildCommitOnce)
    /\ pc' = [pc EXCEPT ![r] = "Do"]
    /\ UNCHANGED <<startVars, fmtVars>>
    /\ UNCHANGED <<req, abandoned, ret, resp, repoLock, workTree, outTree, hosts,
                   lerr, hsum, exit, checkouts, gens>>

\* bc.once.Do(func() {...}): this goroutine is the one that runs f
OnceEnter(r) ==
    /\ pc[r] = "Do"
    /\ OnceMayEnter(build[req[r].commit])
    /\ build' = [build EXCEPT ![req[r].commit].m = r]
    /\ pc' = [pc EXCEPT ![r] = "Lock"]
    /\ UNCHANGED <<startVars, fmtVars>>
    /\ UNCHANGED <<req, abandoned, ret, resp, repoLock, workTree, outTree, hosts,
                   lerr, hsum, exit, checkouts, gens>>

\* buildSite: ch.repoLock.Lock()
Lock(r) ==
    /\ pc[r] = "Lock"
    /\ CanLock
    /\ repoLock' = r
    /\ pc' = [pc EXCEPT ![r] = "Checkout"]
    /\ UNCHANGED <<startVars, fmtVars>>
    /\ UNCHANGED <<req, abandoned, ret, resp, build, workTree, outTree, hosts, lerr,
                   hsum, exit, checkouts, gens>>

\* buildSite: exec.Command("git", "checkout", commit).Run()
Checkout(r) ==
    LET c  == req[r].commit
        ok == CmdRun(r, "checkout", c) = "ok"
    IN  /\ pc[r] = "Checkout"
        /\ checkouts' = [checkouts EXCEPT ![c] = @ + 1]
        /\ workTree' = WorkTreeAfterCheckout(c, ok)
        /\ lerr' = [lerr EXCEPT ![r] =
                      IF ok THEN NilErr ELSE stderrError("git checkout", c)]
        /\ pc' = [pc EXCEPT ![r] = IF ok THEN "Jekyll" ELSE "Unlock"]
        /\ UNCHANGED <<startVars, fmtVars>>
        /\ UNCHANGED <<req, abandoned, ret, resp, build, repoLock, outTree, hosts,
                       hsum, exit, gens>>

\* buildSite: exec.Command("jekyll", "build", safeFlag, "-s", ch.repoDir, "-d", dir).Run()
Jekyll(r) ==
    LET c  == req[r].commit
        ok == CmdRun(r, "jekyll", c) = "ok"
    IN  /\ pc[r] = "Jekyll"
        /\ gens' = [gens EXCEPT ![c] = @ + 1]
        /\ outTree' = IF ok
                      THEN [d \in DOMAIN outTree \cup {OutputDir(c)} |->
                              IF d = OutputDir(c) THEN workTree ELSE outTree[d]]
                      ELSE outTree
        /\ lerr' = [lerr EXCEPT ![r] =
                      IF ok THEN NilErr ELSE stderrError("jekyll build", c)]
        /\ pc' = [pc EXCEPT ![r] = "Unlock"]
        /\ UNCHANGED <<startVars, fmtVars>>
        /\ UNCHANGED <<req, abandoned, ret, resp, build, repoLock, workTree, hosts,
                       hsum, exit, checkouts>>

\* buildSite returns: the deferred ch.repoLock.Unlock(), then bc.err = ...;
\* on success h := fnv.New32a(); io.WriteString(h, commit)
Unlock(r) ==
    LET c == req[r].commit
    IN  /\ pc[r] = "Unlock"
        /\ repoLock' = DeferredUnlock(r, lerr[r])
        /\ build' = [build EXCEPT ![c].err = RecordedErr(lerr[r])]
        /\ IF BuildErr(lerr[r])
           THEN /\ pc' = [pc EXCEPT ![r] = "OnceDone"]
                /\ hsum' = hsum
           ELSE /\ pc' = [pc EXCEPT ![r] = "Alloc"]
                /\ hsum' = [hsum EXCEPT ![r] = CommitHash[c]]
        /\ UNCHANGED <<startVars, fmtVars>>
        /\ UNCHANGED <<req, abandoned, ret, resp, workTree, outTree, hosts, lerr,
                       exit, checkouts, gens>>

\* one iteration of the allocation loop: bc.host = the candidate address;
\* break if ch.hosts.Add accepts it, else h.Write(one[:])
Alloc(r) ==
    LET c    == req[r].commit
        host == IPString(CandidateIP(hsum[r]))
    IN  /\ pc[r] = "Alloc"
        /\ build' = [build EXCEPT ![c].host = host]
        /\ hosts' = HostsAdd(host, siteHandler(OutputDir(c)))
        /\ IF AddSucceeded(host)
           THEN /\ pc' = [pc EXCEPT ![r] = "OnceDone"]
                /\ hsum' = hsum
           ELSE /\ pc' = pc
                /\ hsum' = [hsum EXCEPT ![r] = Perturb(hsum[r])]
        /\ UNCHANGED <<startVars, fmtVars>>
        /\ UNCHANGED <<req, abandoned, ret, resp, repoLock, workTree, outTree, lerr,
                       exit, checkouts, gens>>

\* f has returned: sync.Once stores done and releases its mutex
OnceDone(r) ==
    LET c == req[r].commit
    IN  /\ pc[r] = "OnceDone"
        /\ build' = [build EXCEPT ![c].done = TRUE, ![c].m = 0]
        /\ pc' = [pc EXCEPT ![r] = "Do"]
        /\ UNCHANGED <<startVars, fmtVars>>
        /\ UNCHANGED <<req, abandoned, ret, resp, repoLock, workTree, outTree, hosts,
                       lerr, hsum, exit, checkouts, gens>>

\* Do returns bc.host, bc.err; ServeHTTP writes the error page or the redirect
Return(r) ==
    LET c  == req[r].commit
        bc == build[c]
    IN  /\ pc[r] = "Do"
        /\ OnceMayReturn(bc)
        /\ ret' = [ret EXCEPT ![r] = [host |-> bc.host, err |-> bc.err]]
        /\ resp' = [resp EXCEPT ![r] =
                      IF bc.err # NilErr
                      THEN BuildErrorResp(c, bc.err)
                      ELSE RedirectResp(RedirectURL(bc.host, req[r].rest, req[r].query))]
        /\ pc' = [pc EXCEPT ![r] = "done"]
        /\ UNCHANGED <<startVars, fmtVars>>
        /\ UNCHANGED <<req, abandoned, build, repoLock, workTree, outTree, hosts,
                       lerr, hsum, exit, checkouts, gens>>

\* the client of an in-flight request goes away; nothing in ServeHTTP, Do or
\* buildSite reads r.Context()
Abandon(r) ==
    /\ pc[r] \notin {"idle", "done"}
    /\ ~abandoned[r]
    /\ Cardinality({q \in Reqs : abandoned[q]}) < MaxAbandoned
    /\ abandoned' = [abandoned EXCEPT ![r] = TRUE]
    /\ UNCHANGED <<startVars, fmtVars>>
    /\ UNCHANGED <<pc, req, ret, resp, build, repoLock, workTree, outTree, hosts,
                   lerr, hsum, exit, checkouts, gens>>

Next ==
    \/ \E r \in Reqs, u \in RequestURLs : Arrive(r, u.commit, u.target)
    \/ \E r \in Reqs : LoadOrStore(r)
    \/ \E r \in Reqs : OnceEnter(r)
    \/ \E r \in Reqs : Lock(r)
    \/ \E r \in Reqs : Checkout(r)
    \/ \E r \in Reqs : Jekyll(r)
    \/ \E r \in Reqs : Unlock(r)
    \/ \E r \in Reqs : Alloc(r)
    \/ \E r \in Reqs : OnceDone(r)
    \/ \E r \in Reqs : Return(r)
    \/ \E r \in Reqs : Abandon(r)

Spec == Init /\ [][Next]_vars

\* the steps of the goroutine serving request r
Step(r) ==
    \/ LoadOrStore(r) \/ OnceEnter(r) \/ Lock(r) \/ Checkout(r) \/ Jekyll(r)
    \/ Unlock(r) \/ Alloc(r) \/ OnceDone(r) \/ Return(r)

\* the Go scheduler runs every runnable goroutine, the subprocesses end, and
\* sync.Mutex hands the lock to a goroutine that keeps waiting for it
\* (starvation mode); requests arrive and clients go away as they please
FairSpec ==
    Spec /\ \A r \in Reqs : WF_vars(Step(r)) /\ SF_vars(Lock(r))


(* ------------------------------ startup ------------------------------- *)

\* the handler's and the routing table's variables
servingVars == <<pc, req, abandoned, ret, resp, build, repoLock, workTree, outTree,
                 hosts, lerr, hsum, exit, checkouts, gens>>

\* lines `git log --oneline` may print: the two lines of the repository, a line
\* with an empty title, a line that is an id with no separator, a blank line
LogLines == {LogOutput[1], LogOutput[2], CommitA \o <<32>>, CommitB, <<>>}

\* the outputs of at most MaxLines lines
Listings == UNION {[1..n -> LogLines] : n \in 0..MaxLines}

\* strings.SplitN(s, sep, 2) for a one-byte sep: s cut at the first sep, or s
\* alone when it holds none
SplitN(s, sep) ==
    LET at == {i \in 1..Len(s) : s[i] = sep}
    IN  IF at = {} THEN <<s>>
        ELSE LET i == CHOOSE i \in at : \A j \in at : i <= j
             IN  <<SubSeq(s, 1, i - 1), SubSeq(s, i + 1, Len(s))>>

\* main about to run `git log --oneline` in the cloned repository
StartInit ==
    /\ ServingInit
    /\ FmtIdle
    /\ startPc = "log"
    /\ logExit \in {0, 128}
    /\ out \in Listings
    /\ scanPos = 0
    /\ orderedCommits = <<>>
    /\ commitsMap = <<>>

\* if err := cmd.Run(); err != nil { log.Fatal(err) }
RunLog ==
    /\ startPc = "log"
    /\ startPc' = IF logExit # 0 THEN "fatal" ELSE "scan"
    /\ UNCHANGED <<logExit, out, scanPos, orderedCommits, commitsMap>>
    /\ UNCHANGED <<servingVars, fmtVars>>

\* one round of for scanner.Scan(): line := strings.SplitN(scanner.Text(), " ", 2);
\* commit, title := line[0], line[1], an index out of range (a run-time panic)
\* when the line has no " "; append to orderedCommits; commits[commit] = title
ScanLine ==
    /\ startPc = "scan"
    /\ scanPos < Len(out)
    /\ scanPos' = scanPos + 1
    /\ LET line == SplitN(out[scanPos + 1], 32)
       IN  IF Len(line) < 2
           THEN /\ startPc' = "panic"
                /\ UNCHANGED <<orderedCommits, commitsMap>>
           ELSE /\ startPc' = startPc
                /\ orderedCommits' = Append(orderedCommits, line[1])
                /\ commitsMap' = [c \in DOMAIN commitsMap \cup {line[1]} |->
                                    IF c = line[1] THEN line[2] ELSE commitsMap[c]]
    /\ UNCHANGED <<logExit, out>>
    /\ UNCHANGED <<servingVars, fmtVars>>

\* scanner.Scan() returns false at the end of out and scanner.Err() is nil: main
\* sets up the routing table and the router and starts the server
Serve ==
    /\ startPc = "scan"
    /\ scanPos = Len(out)
    /\ startPc' = "serving"
    /\ UNCHANGED <<logExit, out, scanPos, orderedCommits, commitsMap>>
    /\ UNCHANGED <<servingVars, fmtVars>>

StartNext == RunLog \/ ScanLine \/ Serve

\* main from `git log --oneline` to the start of the server, for every output
\* and exit status of the log
StartSpec == StartInit /\ [][StartNext]_vars


(* --------------------------- stderrError.Error ------------------------ *)

\* (*exec.ExitError).Error() of a subprocess killed by a signal: the bytes of
\* "signal: killed"
SignalKilled == <<115, 105, 103, 110, 97, 108, 58, 32, 107, 105, 108, 108, 101, 100>>

\* the short descriptions e.err.Error() may give
ErrDescs == {ExitStatus1, SignalKilled}

\* the bytes a subprocess may write to standard error: a letter, newline, tab
\* and space
StderrBytes == {101, 10, 9, 32}

\* the captured outputs of at most MaxStderr bytes
Stderrs == UNION {[1..n -> StderrBytes] : n \in 0..MaxStderr}

\* a *stderrError built by buildSite, Error not yet called on it
FmtInit ==
    /\ ServingInit
    /\ Started
    /\ fmtErr \in [err : ErrDescs, stderr : Stderrs]
    /\ fmtMsg = <<>>

\* Msg: err.Error() in ServeHTTP
CallError ==
    /\ fmtMsg = <<>>
    /\ fmtMsg' = Error(fmtErr)
    /\ UNCHANGED <<fmtErr, servingVars, startVars>>

FmtNext == CallError

\* Error called on every *stderrError of the bounded inputs
FmtSpec == FmtInit /\ [][FmtNext]_vars


(* ------------------------------ claims -------------------------------- *)

\* the requests for commit c that have been answered
Answered(c) == {r \in Reqs : pc[r] = "done" /\ req[r].commit = c}

\* the requests for commit c that have arrived
Arrived(c) == {r \in Reqs : pc[r] # "idle" /\ req[r].commit = c}

\* C1: for every known commit the build sequence (git checkout, then jekyll
\* build) is started at most once, whatever the interleaving of the requests
\* for it; it has been started exactly once when a request for the commit has
\* been answered, never without a request for it, and a commit whose record is
\* complete has had exactly one checkout and at most one generator run.
C1_BuildAtMostOnce ==
    \A c \in DOMAIN commits :
        /\ checkouts[c] <= 1
        /\ gens[c] <= checkouts[c]
        /\ Answered(c) # {} => checkouts[c] = 1
        /\ checkouts[c] > 0 => Arrived(c) # {}
        /\ (c \in DOMAIN build /\ build[c].done) => checkouts[c] = 1

\* two requests for one commit are answered after a single checkout and a
\* single generator run
C1_Witness ==
    \E c \in DOMAIN commits :
        /\ Cardinality(Answered(c)) >= 2
        /\ checkouts[c] = 1
        /\ gens[c] = 1

\* C2: every call of Do for a known commit returns only after the build
\* attempt of that commit has completed, and all calls for the commit return
\* the same outcome: the recorded host with no error, or the recorded error.
C2_SameOutcome ==
    \A c \in DOMAIN commits :
        /\ \A r \in Answered(c) :
              /\ c \in DOMAIN build
              /\ build[c].done
              /\ ret[r].host = build[c].host
              /\ ret[r].err = build[c].err
              /\ ret[r].err = NilErr <=> ret[r].host # ""
        /\ \A r1, r2 \in Answered(c) : ret[r1] = ret[r2]

\* the goroutine that ran the build and one that waited both returned, with
\* the same host
C2_Witness ==
    \E c \in DOMAIN commits :
        \E r1, r2 \in Answered(c) :
            /\ r1 # r2
            /\ hsum[r1] # New32a
            /\ hsum[r2] = New32a
            /\ ret[r1].host # ""
            /\ ret[r1] = ret[r2]

\* the requests inside buildSite's critical section
InCriticalSection == {r \in Reqs : pc[r] \in {"Checkout", "Jekyll", "Unlock"}}

\* C3: at most one build attempt is inside the repoLock critical section: no
\* checkout or generator step of one commit runs while a step of another does.
C3_Serialized ==
    /\ Cardinality(InCriticalSection) <= 1
    /\ \A r \in InCriticalSection : repoLock = r
    /\ \A r1, r2 \in InCriticalSection : req[r1].commit = req[r2].commit

\* a build of one commit waits for the lock while another commit's generator runs
C3_Witness ==
    \E r1, r2 \in Reqs :
        /\ pc[r1] = "Jekyll"
        /\ pc[r2] = "Lock"
        /\ req[r1].commit # req[r2].commit


\* the commits whose record is complete with no error (Done)
DoneCommits == {c \in DOMAIN build : build[c].done /\ build[c].err = NilErr}

\* the commits whose record is complete with an error (Failed)
FailedCommits == {c \in DOMAIN build : build[c].done /\ build[c].err # NilErr}

\* C4: the identities of the commits are pairwise distinct and none of them is
\* a canonical listing host; every host of the routing table has one handler:
\* the router for the listing hosts, and for any other host the content server
\* of one commit, which has no second host.
C4_DistinctIdentities ==
    /\ \A c1, c2 \in DoneCommits : c1 # c2 => build[c1].host # build[c2].host
    /\ \A c \in DoneCommits :
          /\ build[c].host \notin CanonicalHosts
          /\ build[c].host \in DOMAIN hosts
          /\ hosts[build[c].host].dir.sub = c
    /\ \A h \in CanonicalHosts : h \in DOMAIN hosts /\ hosts[h] = router
    /\ \A h \in DOMAIN hosts \ CanonicalHosts :
          /\ hosts[h].kind = "site"
          /\ hosts[h].dir.sub \in DOMAIN commits
          /\ \A g \in DOMAIN hosts : hosts[g].dir = hosts[h].dir => g = h

\* both commits, whose hashes collide with 127.0.0.1 and with each other, are
\* Done with the next two addresses of the probe sequence
C4_Witness ==
    /\ DoneCommits = DOMAIN commits
    /\ {build[c].host : c \in DoneCommits} = {"127.0.0.0", "127.0.1.147"}

\* C5: once the record of commit c holds an error, the record, the checkout
\* count and the generator count of c never change again, and every request
\* for c answered from then on gets status 500 with the diagnostic of the
\* recorded error, the same as every request for c answered before it.
C5_FailureCached ==
    [][\A c \in FailedCommits :
          /\ build'[c] = build[c]
          /\ checkouts'[c] = checkouts[c]
          /\ gens'[c] = gens[c]
          /\ \A r \in Reqs :
                (req'[r].commit = c /\ pc[r] # "done" /\ pc'[r] = "done") =>
                    /\ resp'[r].status = 500
                    /\ resp'[r].commit = c
                    /\ resp'[r].msg = build[c].err.err \o <<58, 10, 9>> \o build[c].err.stderr
                    /\ \A q \in Answered(c) : resp[q] = resp'[r]]_vars

\* two requests for a commit whose generator failed are answered 500 with the
\* same diagnostic after one checkout and one generator run
C5_Witness ==
    \E c \in FailedCommits :
        /\ Cardinality(Answered(c)) >= 2
        /\ \A r \in Answered(c) :
              /\ resp[r].status = 500
              /\ resp[r].msg = ExitStatus1 \o <<58, 10, 9, 106>> \o c \o <<10>>
        /\ checkouts[c] = 1
        /\ gens[c] = 1

\* C6: a request for a commit that is not in ch.commits is answered not-found
\* in its first step, and that step leaves the build records, the repoLock, the
\* working tree, the output directories and the routing table as they were; no
\* record is ever held for such a commit and nothing is ever run for it.
C6_UnknownCommit ==
    /\ [](/\ \A c \in DOMAIN build : c \in DOMAIN commits
          /\ \A c \in CommitParams \ DOMAIN commits :
                /\ checkouts[c] = 0
                /\ gens[c] = 0
                /\ workTree # c
                /\ \A h \in DOMAIN hosts : hosts[h].dir.sub # c
                /\ \A r \in Arrived(c) : pc[r] = "done" /\ resp[r].status = 404)
    /\ [][\A r \in Reqs :
            (pc[r] = "idle" /\ pc'[r] # "idle" /\ req'[r].commit \notin DOMAIN commits) =>
                /\ pc'[r] = "done"
                /\ resp'[r].status = 404
                /\ UNCHANGED <<build, repoLock, workTree, outTree, hosts,
                               checkouts, gens>>]_vars

\* a request for zzz999 has been answered 404 while another request's build
\* holds the repoLock
C6_Witness ==
    \E r1, r2 \in Reqs :
        /\ req[r1].commit = CommitZ
        /\ pc[r1] = "done"
        /\ resp[r1].status = 404
        /\ repoLock = r2

\* C7: a request /commit/{id}/{rest}?{query} for a commit whose build
\* succeeded is answered 303 with location http://{host}:{port}/{rest}?{query},
\* host being the identity registered for that commit's output directory.
C7_Redirect ==
    \A c \in DoneCommits :
        \A r \in Answered(c) :
            /\ resp[r].status = 303
            /\ resp[r].location.Scheme = "http"
            /\ resp[r].location.Host = build[c].host \o ":8080"
            /\ resp[r].location.Path = req[r].rest
            /\ resp[r].location.RawQuery = req[r].query
            /\ build[c].host \in DOMAIN hosts
            /\ hosts[build[c].host].dir.sub = c

\* a request with a trailing path and a query string has been redirected
C7_Witness ==
    \E c \in DoneCommits :
        \E r \in Answered(c) :
            /\ req[r].rest = "about/index.html"
            /\ req[r].query = "v=1"
            /\ resp[r].status = 303
            /\ resp[r].location.Path = "about/index.html"
            /\ resp[r].location.RawQuery = "v=1"


\* Host headers of requests to the dispatcher: every registered host, the
\* addresses of the probe sequence of the known commits and a foreign name
HostHeaders ==
    DOMAIN hosts \cup CanonicalHosts
        \cup {"127.0.0.0", "127.0.1.147", "127.2.120.214", "example.com"}

\* C8, as claimed: the dispatcher maps each canonical listing host to the
\* router, the identity of every Done commit to a content server rooted at that
\* commit's output directory, and answers every other host with not-found.
C8_AsClaimed ==
    \A h \in HostHeaders :
        Dispatch(h) =
            IF h \in CanonicalHosts THEN router
            ELSE IF \E c \in DoneCommits : build[c].host = h
            THEN LET c == CHOOSE c \in DoneCommits : build[c].host = h
                 IN  [kind |-> "site", dir |-> [root |-> "outDir", sub |-> c]]
            ELSE notFoundHandler

\* the commits whose build has registered its identity: Done, or built with no
\* error and past the accepted hosts.Add, the once not yet marked done
Registered ==
    {c \in DOMAIN build :
        /\ build[c].err = NilErr
        /\ \/ build[c].done
           \/ \E r \in Reqs : pc[r] = "OnceDone" /\ req[r].commit = c}

\* C8, amended: the dispatcher maps each canonical listing host to the router,
\* the identity of every commit that is Done, or whose successful build has
\* just registered it and is about to become Done, to a content server rooted
\* at that commit's own output directory, and answers every other host with
\* not-found.
C8_Dispatch ==
    /\ DoneCommits \subseteq Registered
    /\ \A h \in HostHeaders :
          Dispatch(h) =
              IF h \in CanonicalHosts THEN router
              ELSE IF \E c \in Registered : build[c].host = h
              THEN LET c == CHOOSE c \in Registered : build[c].host = h
                   IN  [kind |-> "site", dir |-> [root |-> "outDir", sub |-> c]]
              ELSE notFoundHandler

\* one commit is Done and served from its own directory while the other
\* commit's identity is registered and its record not yet complete
C8_Witness ==
    \E c1, c2 \in DOMAIN commits :
        /\ c1 \in DoneCommits
        /\ Dispatch(build[c1].host) = [kind |-> "site", dir |-> [root |-> "outDir", sub |-> c1]]
        /\ c2 \in Registered \ DoneCommits
        /\ Dispatch(build[c2].host) = [kind |-> "site", dir |-> [root |-> "outDir", sub |-> c2]]
        /\ Dispatch("example.com") = notFoundHandler

RECURSIVE FirstFree(_, _)
\* the first address 127.x.y.z of the probe sequence from hash state h (x.y.z
\* the low three bytes of h, then of h with byte 1 written, ...) that is not
\* in the set registered
FirstFree(h, registered) ==
    LET s == Sum(h)
        a == "127." \o ToString(s[2]) \o "." \o ToString(s[3]) \o "." \o ToString(s[4])
    IN  IF a \notin registered THEN a ELSE FirstFree(WriteByte(h, 1), registered)

\* C9: the identity a commit is given is a function of the commit id and of
\* the set of hosts registered when its registration is accepted: the first
\* address of the commit's probe sequence that is not in that set, an address
\* of 127.0.0.0/8.
C9_Deterministic ==
    [][\A r \in Reqs :
          (pc[r] = "Alloc" /\ pc'[r] = "OnceDone") =>
              LET c == req[r].commit
              IN  /\ build'[c].host = FirstFree(WriteString(New32a, c), DOMAIN hosts)
                  /\ DOMAIN hosts' = DOMAIN hosts \cup {build'[c].host}]_vars

\* a commit has been given the third address of its probe sequence, the first
\* two being registered
C9_Witness ==
    \E c \in DoneCommits :
        /\ build[c].host = "127.0.1.147"
        /\ {"127.0.0.1", "127.0.0.0"} \subseteq DOMAIN hosts

\* C10: a client going away changes nothing of the build: the record of a
\* commit ends with the outcome its checkout and generator runs have (no error
\* exactly when both exit zero, else the error of the step that failed), the
\* requests for it are answered with that outcome, a build that has started
\* completes, and every request that has arrived is answered, whichever
\* requests are abandoned.
C10_AbandonIndependent ==
    /\ [](/\ \A c \in DOMAIN build :
                build[c].done =>
                    build[c].err =
                        IF exit[c] = "ok" THEN [err |-> <<>>, stderr |-> <<>>]
                        ELSE [err |-> ExitStatus1,
                              stderr |-> <<IF exit[c] = "checkout" THEN 103 ELSE 106>>
                                             \o c \o <<10>>]
          /\ \A c \in DOMAIN commits :
                \A r \in Answered(c) :
                    resp[r].status = IF exit[c] = "ok" THEN 303 ELSE 500)
    /\ \A c \in DOMAIN commits :
          (c \in DOMAIN build /\ build[c].m # 0) ~> (c \in DOMAIN build /\ build[c].done)
    /\ \A r \in Reqs : (pc[r] # "idle") ~> (pc[r] = "done")

\* the goroutine running a build was abandoned before the build completed; the
\* build has run through checkout, generator and registration, and another
\* request for the commit is waiting for it
C10_Witness ==
    \E r1, r2 \in Reqs :
        /\ abandoned[r1]
        /\ pc[r1] = "OnceDone"
        /\ build[req[r1].commit].err = NilErr
        /\ build[req[r1].commit].host \in DOMAIN hosts
        /\ r2 # r1
        /\ req[r2].commit = req[r1].commit
        /\ pc[r2] = "Do"


\* C11: main reaches the serving state only when the log printed at least one
\* line and every line it printed has a separator between id and title: on a
\* line without separator and on an empty listing the process fails fast.
C11_FailsFast ==
    startPc = "serving" =>
        /\ Len(out) > 0
        /\ \A i \in 1..Len(out) : \E j \in 1..Len(out[i]) : out[i][j] = 32

\* what does hold of main: it reaches the serving state only when the log
\* exited zero and every line has a separator, and then commits and
\* orderedCommits hold exactly the lines of the listing
C11_MalformedFailsFast ==
    startPc = "serving" =>
        /\ logExit = 0
        /\ \A i \in 1..Len(out) : \E j \in 1..Len(out[i]) : out[i][j] = 32
        /\ Len(orderedCommits) = Len(out)
        /\ DOMAIN commitsMap = {orderedCommits[i] : i \in 1..Len(out)}
        /\ \A i \in 1..Len(out) :
              \E j \in i..Len(out) :
                  out[j] = orderedCommits[i] \o <<32>> \o commitsMap[orderedCommits[i]]

\* main has panicked on a line without separator after indexing a line
C11_PanicReached ==
    /\ startPc = "panic"
    /\ Len(orderedCommits) = 1
    /\ out[scanPos] = CommitB


\* the state of the record of commit c in the map b: None while the map has
\* no record for c, Pending from its creation, Building while the once
\* function runs, then Done or Failed
RecordState(b, c) ==
    IF c \notin DOMAIN b THEN "None"
    ELSE IF b[c].done THEN (IF b[c].err = NilErr THEN "Done" ELSE "Failed")
    ELSE IF b[c].m # 0 THEN "Building"
    ELSE "Pending"

\* the moves of a record: forward only
Forward ==
    {<<"None", "Pending">>, <<"Pending", "Building">>,
     <<"Building", "Done">>, <<"Building", "Failed">>}

\* C12: every known commit has one record at most, created by the
\* LoadOrStore of a request for it; the record only moves forward, Pending to
\* Building to Done or Failed, so it enters Building once at most; a Done or
\* Failed record never changes again and no route is ever removed or changed;
\* under fair scheduling a record that is Building reaches Done or Failed.
C12_ForwardOnly ==
    /\ [](\A c \in DOMAIN build : c \in DOMAIN commits /\ Arrived(c) # {})
    /\ [][/\ \A c \in DOMAIN commits :
               LET s == RecordState(build, c)
                   t == RecordState(build', c)
               IN  /\ s = t \/ <<s, t>> \in Forward
                   /\ (s = "None" /\ t = "Pending") =>
                          /\ build'[c] = NewBuildCommitOnce
                          /\ \E r \in Reqs : /\ pc[r] = "LoadOrStore"
                                              /\ pc'[r] = "Do"
                                              /\ req[r].commit = c
                   /\ s \in {"Done", "Failed"} => build'[c] = build[c]
          /\ \A h \in DOMAIN hosts : h \in DOMAIN hosts' /\ hosts'[h] = hosts[h]]_vars
    /\ \A c \in DOMAIN commits :
          (RecordState(build, c) = "Building")
              ~> (RecordState(build, c) \in {"Done", "Failed"})

\* one commit's record is Done and the other's Failed, each after one build,
\* and both requests have been answered
C12_Witness ==
    \E c1, c2 \in DOMAIN commits :
        /\ RecordState(build, c1) = "Done"
        /\ RecordState(build, c2) = "Failed"
        /\ checkouts[c1] = 1 /\ checkouts[c2] = 1
        /\ \A r \in Reqs : pc[r] = "done"


\* C13: checkout and generation are one critical section: the working tree,
\* the output directories and the subprocess counts change only in steps of
\* the goroutine that holds the repoLock, which keeps it through the step; the
\* lock is given up only by the holder at the end of buildSite, not between
\* the checkout and the generator run; whenever the generator runs for a
\* commit the working tree is checked out at that commit, and every output
\* directory holds the site of its own commit.
C13_AtomicSection ==
    /\ [](/\ \A r \in InCriticalSection : repoLock = r
          /\ \A r \in Reqs : pc[r] = "Jekyll" => workTree = req[r].commit
          /\ \A d \in DOMAIN outTree : outTree[d] = d.sub)
    /\ [][/\ (workTree' # workTree \/ outTree' # outTree
                 \/ checkouts' # checkouts \/ gens' # gens) =>
                    /\ repoLock # 0
                    /\ repoLock' = repoLock
                    /\ pc[repoLock] \in {"Checkout", "Jekyll"}
                    /\ pc'[repoLock] \in {"Jekyll", "Unlock"}
          /\ \A r \in Reqs :
                (repoLock = r /\ repoLock' # r) =>
                    /\ pc[r] = "Unlock"
                    /\ repoLock' = 0]_vars

\* the generator runs for a commit, the working tree checked out at it, after
\* the site of another commit was generated from the same working tree
C13_Witness ==
    \E r \in Reqs :
        /\ pc[r] = "Jekyll"
        /\ repoLock = r
        /\ workTree = req[r].commit
        /\ \E d \in DOMAIN outTree : d.sub # req[r].commit /\ outTree[d] = d.sub


\* C14: when the checkout of a commit exits non-zero the generator is not run
\* for it and no output directory is written for it, and its record ends
\* Failed with the checkout's diagnostic; when the generator exits non-zero
\* the record ends Failed with the generator's diagnostic; in both cases the
\* allocation loop is never entered for the commit: its record's host stays
\* empty, no route leads to its output directory, and its requests are
\* answered 500 with the diagnostic and no identity.
C14_FailedBuild ==
    \A c \in DOMAIN commits :
        /\ exit[c] = "checkout" =>
              /\ gens[c] = 0
              /\ OutputDir(c) \notin DOMAIN outTree
              /\ workTree # c
        /\ exit[c] # "ok" =>
              /\ \A h \in DOMAIN hosts : hosts[h].dir # OutputDir(c)
              /\ \A r \in Arrived(c) :
                    /\ pc[r] # "Alloc"
                    /\ hsum[r] = New32a
                    /\ ret[r].host = ""
              /\ c \in DOMAIN build =>
                    /\ build[c].host = ""
                    /\ build[c].done =>
                          /\ RecordState(build, c) = "Failed"
                          /\ build[c].err.err = ExitStatus1
                          /\ build[c].err.stderr =
                                (IF exit[c] = "checkout" THEN <<103>> ELSE <<106>>)
                                    \o c \o <<10>>
              /\ \A r \in Answered(c) :
                    /\ resp[r].status = 500
                    /\ resp[r].location = NoURL
                    /\ resp[r].msg =
                          ExitStatus1 \o <<58, 10, 9>>
                              \o (IF exit[c] = "checkout" THEN <<103>> ELSE <<106>>)
                              \o c \o <<10>>

\* one commit has Failed in its checkout, with no generator run, the other in
\* its generator run; both requests are answered and the routing table holds
\* the listing hosts only
C14_Witness ==
    \E c1, c2 \in FailedCommits :
        /\ exit[c1] = "checkout" /\ checkouts[c1] = 1 /\ gens[c1] = 0
        /\ exit[c2] = "jekyll" /\ checkouts[c2] = 1 /\ gens[c2] = 1
        /\ Answered(c1) # {} /\ Answered(c2) # {}
        /\ DOMAIN hosts = CanonicalHosts


\* the allocation loop has one exit, a candidate that hosts.Add accepts: a
\* goroutine in the loop stays in it or leaves it with its candidate newly
\* registered, and no step of the loop records an error
AllocLoopOnlyExit ==
    [][\A r \in Reqs :
          pc[r] = "Alloc" =>
              LET c == req[r].commit
              IN  /\ pc'[r] \in {"Alloc", "OnceDone"}
                  /\ build'[c].err = NilErr
                  /\ pc'[r] = "OnceDone" =>
                        /\ build'[c].host \notin DOMAIN hosts
                        /\ build'[c].host \in DOMAIN hosts'
                        /\ build'[c].host = IPString(CandidateIP(hsum[r]))]_vars

\* a goroutine is in the allocation loop after a rejected candidate
AllocLoopRetried ==
    \E r \in Reqs : pc[r] = "Alloc" /\ hsum[r] # CommitHash[req[r].commit]


\* the orders in which the commits of S may allocate
Orders(S) ==
    {o \in [1..Cardinality(S) -> S] : \A i, j \in 1..Cardinality(S) : o[i] = o[j] => i = j}

\* the identities the commits of the sequence order end with when their
\* allocations run one after the other in that order, on a routing table that
\* holds the listing hosts
AllocateIn(order) ==
    LET given[i \in 0..Len(order)] ==
            IF i = 0 THEN <<>>
            ELSE given[i - 1] @@
                   (order[i] :>
                      FirstFree(CommitHash[order[i]],
                                CanonicalHosts \cup
                                  {given[i - 1][d] : d \in DOMAIN given[i - 1]}))
    IN  given[Len(order)]

\* AllocateIn for every order of every set of known commits
Identities ==
    [o \in UNION {Orders(S) : S \in SUBSET DOMAIN commits} |-> AllocateIn(o)]

\* the assignments of identities that allocating in some order gives
Allocations == {Identities[o] : o \in DOMAIN Identities}

\* the identity a commit gets when it allocates first
Home == [c \in DOMAIN commits |-> Identities[<<c>>][c]]

\* the set of identities handed out to a set of commits is the same in every
\* order of their allocations
SameIdentitySets ==
    \A f, g \in Allocations :
        DOMAIN f = DOMAIN g => {f[c] : c \in DOMAIN f} = {g[c] : c \in DOMAIN g}

\* C16, as claimed: the identity of a commit does not depend on the order of
\* the allocations: each commit has the identity it ends with in every order
\* in which the commits that have one may have allocated.
C16_AsClaimed ==
    \A f \in Allocations :
        DOMAIN f = DoneCommits => \A c \in DoneCommits : build[c].host = f[c]

\* C16, amended: the identities are those of allocating one commit after the
\* other in some order (the order in which hosts.Add accepted them): each
\* commit has the first address of its probe sequence that is neither a
\* listing host nor the identity of a commit before it; the set of identities
\* handed out to a set of commits is the same in every order; and a commit
\* has the identity it would get allocating first unless another commit
\* holds that address.
C16_OrderOnlyAtCollisions ==
    /\ [c \in Registered |-> build[c].host] \in Allocations
    /\ SameIdentitySets
    /\ \A c \in Registered :
          (\A d \in Registered \ {c} : build[d].host # Home[c])
              => build[c].host = Home[c]

\* the two commits, whose hashes collide, are Done with the identities of the
\* order CommitB, CommitA: the reverse of the identities of the other order
C16_Witness ==
    /\ DoneCommits = {CommitA, CommitB}
    /\ build[CommitB].host = "127.0.0.0"
    /\ build[CommitA].host = "127.0.1.147"
    /\ Identities[<<CommitA, CommitB>>][CommitA] = "127.0.0.0"
    /\ Identities[<<CommitA, CommitB>>][CommitB] = "127.0.1.147"


RECURSIVE Indented(_)
\* s with a tab inserted after each newline
Indented(s) ==
    IF s = <<>> THEN <<>>
    ELSE (IF Head(s) = 10 THEN <<10, 9>> ELSE <<Head(s)>>) \o Indented(Tail(s))

\* the white space bytes
WhiteSpace == {9, 10, 11, 12, 13, 32}

\* C17, as claimed: the diagnostic is the description d alone when the
\* captured stderr s is empty, else d, ':', newline, tab and s with a tab
\* inserted after each newline, all trailing white space removed from the
\* result: the result does not end in white space and what was cut from it is
\* white space only.
C17_AsClaimed ==
    fmtMsg # <<>> =>
        LET d    == fmtErr.err
            full == d \o <<58, 10, 9>> \o Indented(fmtErr.stderr)
        IN  IF fmtErr.stderr = <<>> THEN fmtMsg = d
            ELSE /\ Len(fmtMsg) <= Len(full)
                 /\ fmtMsg = SubSeq(full, 1, Len(fmtMsg))
                 /\ \A i \in Len(fmtMsg) + 1..Len(full) : full[i] \in WhiteSpace
                 /\ fmtMsg[Len(fmtMsg)] \notin WhiteSpace

\* C17, amended: the diagnostic is d alone when s is empty, else d, ':',
\* newline, tab and a body: s with a tab inserted after each newline and the
\* trailing tabs, nothing else, removed; the body may be empty and may end in a
\* newline or a space.
C17_Diagnostic ==
    fmtMsg # <<>> =>
        LET d    == fmtErr.err
            ind  == Indented(fmtErr.stderr)
            body == SubSeq(fmtMsg, Len(d) + 4, Len(fmtMsg))
        IN  IF fmtErr.stderr = <<>> THEN fmtMsg = d
            ELSE /\ Len(fmtMsg) >= Len(d) + 3
                 /\ SubSeq(fmtMsg, 1, Len(d) + 3) = d \o <<58, 10, 9>>
                 /\ Len(body) <= Len(ind)
                 /\ body = SubSeq(ind, 1, Len(body))
                 /\ \A i \in Len(body) + 1..Len(ind) : ind[i] = 9
                 /\ body # <<>> => body[Len(body)] # 9

\* the diagnostic of a stderr that ends in a newline ends in that newline
C17_Witness ==
    /\ fmtErr.stderr = <<101, 10, 101, 10>>
    /\ fmtMsg = fmtErr.err \o <<58, 10, 9, 101, 10, 9, 101, 10>>


\* C18: the repoLock is held only by a goroutine inside buildSite and is free
\* again when that goroutine leaves buildSite, after a failed checkout, a
\* failed generator run or a success alike; so under fair scheduling, the
\* subprocesses ending, every goroutine that waits for the lock gets it, also
\* when the build that held it has failed.
C18_LockReleased ==
    /\ [](\A r \in Reqs : repoLock = r => r \in InCriticalSection)
    /\ [][\A r \in Reqs :
            (pc[r] = "Unlock" /\ pc'[r] # "Unlock") =>
                /\ repoLock = r
                /\ repoLock' = 0
                /\ pc'[r] = IF lerr[r] = NilErr THEN "Alloc" ELSE "OnceDone"]_vars
    /\ \A r \in Reqs : (pc[r] = "Lock") ~> (repoLock = r)

\* a build has failed and left buildSite, and the first build of another
\* commit holds the lock
C18_Witness ==
    \E r1, r2 \in Reqs :
        /\ pc[r1] = "OnceDone"
        /\ lerr[r1] # NilErr
        /\ pc[r2] = "Checkout"
        /\ repoLock = r2
        /\ req[r1].commit # req[r2].commit


\* C19: registration precedes publication: a host that Do has returned to a
\* caller, and the host of every 303 location sent, is in the routing table
\* with the content server of the request's commit, and was there before the
\* step that returned it.
C19_RegisteredBeforePublished ==
    /\ [](\A r \in Reqs :
            /\ ret[r].host # "" =>
                  /\ ret[r].host \in DOMAIN hosts
                  /\ hosts[ret[r].host] =
                        [kind |-> "site",
                         dir |-> [root |-> "outDir", sub |-> req[r].commit]]
            /\ resp[r].status = 303 =>
                  /\ ret[r].host # ""
                  /\ resp[r].location.Host = ret[r].host \o ":8080")
    /\ [][\A r \in Reqs :
            (/\ ret'[r].host # ret[r].host \/ resp'[r].status # resp[r].status
             /\ ret'[r].host # "" \/ resp'[r].status = 303) =>
                    /\ ret'[r].host \in DOMAIN hosts
                    /\ hosts[ret'[r].host].dir.sub = req[r].commit
                    /\ hosts' = hosts]_vars

\* the first caller has been sent the redirect to a registered identity while
\* another caller for the commit has not returned from Do yet
C19_Witness ==
    \E r1, r2 \in Reqs :
        /\ resp[r1].status = 303
        /\ Dispatch(ret[r1].host).dir.sub = req[r1].commit
        /\ req[r2].commit = req[r1].commit
        /\ pc[r2] = "Do"


\* the hosts of the routing table that lead to a commit's content server
SiteHosts == {h \in DOMAIN hosts : hosts[h].kind = "site"}

\* a complete record holds an identity or an error, never both and never
\* neither: Done with a registered identity that serves the commit and no
\* error, Failed with an error, no identity and no route to the commit
RecordShape ==
    /\ \A c \in DOMAIN build : build[c].done => c \in DoneCommits \cup FailedCommits
    /\ \A c \in DoneCommits :
          /\ build[c].err = NilErr
          /\ build[c].host # ""
          /\ build[c].host \in SiteHosts
          /\ hosts[build[c].host].dir.sub = c
    /\ \A c \in FailedCommits :
          /\ build[c].err # NilErr
          /\ build[c].err.err # <<>>
          /\ build[c].host = ""
          /\ \A h \in DOMAIN hosts : hosts[h].dir.sub # c

\* C20, as claimed: in every reachable state a complete record holds exactly
\* one of identity and error, and the number of per-commit routing entries
\* equals the number of Done records.
C20_AsClaimed ==
    /\ RecordShape
    /\ Cardinality(SiteHosts) = Cardinality(DoneCommits)

\* C20, amended: a complete record holds exactly one of identity and error,
\* and the per-commit routing entries are one for each Done record and one
\* for each build that has registered its identity and whose record is not
\* yet complete: never fewer than the Done records, and as many once no build
\* is between its registration and its completion.
C20_RecordInvariant ==
    /\ RecordShape
    /\ Cardinality(SiteHosts) = Cardinality(Registered)
    /\ DoneCommits \subseteq Registered
    /\ (\A r \in Reqs : pc[r] # "OnceDone") =>
          Cardinality(SiteHosts) = Cardinality(DoneCommits)

\* one record is Done, one is Failed and both requests are answered: one
\* per-commit routing entry
C20_Witness ==
    /\ Cardinality(DoneCommits) = 1
    /\ Cardinality(FailedCommits) = 1
    /\ Cardinality(SiteHosts) = 1
    /\ \A r \in Reqs : pc[r] = "done"

====
